---- MODULE Spec2Model ----
(***************************************************************************)
(* Model of gru: the command "gructl classifier", the systemd service      *)
(* resource (ServiceResource) and the etcd minion client                   *)
(* (EtcdMinionClient) of classifier.go.                                    *)
(***************************************************************************)
EXTENDS Integers, Sequences, FiniteSets, Bags, TLC

VARIABLES
    \* ---- ServiceResource and the systemd unit it manages
    s,          \* the resource: [State, Enable]
    unit,       \* systemd's view of s.UnitName: [ActiveState, UnitFileState]
    last,       \* outcome of the most recent operation on s
    prev,       \* outcome of the operation before last
    prev2       \* the State returned by the operation before prev, when that
                \* was an Evaluate that returned no error

svcVars == <<s, unit, last, prev, prev2>>

VARIABLES
    \* ---- the etcd store under minion.EtcdMinionSpace, as SubmitTask and
    \*      GetAllClassifiers see it
    root,           \* the minions whose root directory exists
    queueDir,       \* queueDir[u]: the nodes of <u>/queue, a set of [key, value]
    index,          \* the store's index, which names in-order keys
    classifierDir,  \* classifierDir[u]: [found, nodes], the node values of
                    \* <u>/classifier when that directory exists
    \* ---- calls of SubmitTask, one per task
    call,           \* call[t]: [pc, u, err, key]; key is the name of the node
                    \* the call created, 0 while it has created none
    before,         \* before[t]: the tasks whose SubmitTask to the same minion
                    \* had returned nil when SubmitTask(t) started
    consumed,       \* the tasks a minion has taken off its queue
    \* ---- the last call of GetAllClassifiers
    gac             \* [ok, u, classifiers, err]

storeVars == <<root, queueDir, index, classifierDir>>
submitVars == <<call, before, consumed>>

VARIABLES
    \* ---- a fan-out query: GetClassifiedMinions or GetTask
    query,      \* "classifier" or "task": which of the two is running
    nodes,      \* the node keys under minion.EtcdMinionSpace
    entry,      \* entry[m]: what minion m held under classifier/<key>, or
                \* under log/<task>, when the query read it: "ok", "garbage"
                \* (no JSON) or "none" (the read failed); "unread" before
    callerPc,   \* where the calling goroutine is
    resp,       \* the variable resp of the query
    err,        \* the variable err of the query
    queue,      \* the channel queue: the uuids sent and not yet received
    closed,     \* queue has been closed
    producer,   \* the producer goroutine: [pc, nodes, i]
    wg,         \* the counter of the WaitGroup
    worker,     \* the worker goroutines started, a bag of [pc, minionUUID, t]:
                \* the workers are the same closure and carry no identity;
                \* t is <<>> or <<the value decoded>>
    cm,         \* the concurrent map, a set of [Key, Value]
    ret,        \* what the query returned: [returned, result, err]
    crashed,    \* a goroutine panicked and the process died
    lookups     \* lookups[m]: per-minion lookups issued for m (2 = several)

fanVars == <<query, nodes, entry, callerPc, resp, err, queue, closed, producer,
             wg, worker, cm, ret, crashed, lookups>>

VARIABLES
    \* ---- one run of the command "gructl classifier"
    cmd         \* [pc, args, minion, keys, i, rows, listErr, readErr, lists,
                \*  reads, exit, out]: lists and reads count the store accesses
                \* made, exit is the exit code and out the error displayed

vars == <<svcVars, storeVars, submitVars, gac, fanVars, cmd>>

Nil == "nil"

(***************************************************************************)
(* ServiceResource                                                         *)
(***************************************************************************)

StateUnknown == "unknown"
StateRunning == "running"
StateStopped == "stopped"

\* Values systemd reports for the ActiveState property; "maintenance" stands
\* for every string the switch of Evaluate does not list.
ActiveStates ==
    {"active", "reloading", "activating", "inactive", "failed", "deactivating",
     "maintenance"}

\* Values systemd reports for the UnitFileState property; "indirect" stands
\* for every string the switch of unitIsEnabled does not list.
UnitFileStates ==
    {"enabled", "static", "enabled-runtime", "linked", "linked-runtime",
     "disabled", "masked", "masked-runtime", "invalid", "indirect"}

\* Results systemd reports on the channel of a start or stop job ("timeout"
\* acts on the unit like "failed"; "dependency" and "skipped" like "canceled").
JobResults == {"done", "failed", "canceled"}

\* A capability call as it appears in the trace of an operation.
Call(name, ok) == [call |-> name, ok |-> ok]

\* Which of the k fallible capability calls of one operation fail: the n-th
\* fallible call of the operation fails iff n is in the chosen set.  An
\* operation that returns at its first failure meets at most one (m = 1);
\* Update drops the error of enableUnit / disableUnit and can meet two.
Failures(k, m) == {F \in SUBSET (1..k) : Cardinality(F) <= m}

\* unitProperty: connect, query one property of the unit, close.
\* n is the ordinal of the next fallible call of the running operation.
unitProperty(propertyName, u, F, n) ==
    IF n \in F
    THEN [err |-> "dbus.New", value |-> Nil, n |-> n + 1,
          calls |-> <<Call("New", FALSE)>>]
    ELSE IF (n + 1) \in F
    THEN [err |-> "GetUnitProperty", value |-> Nil, n |-> n + 2,
          calls |-> <<Call("New", TRUE), Call("GetUnitProperty", FALSE),
                      Call("Close", TRUE)>>]
    ELSE [err |-> Nil, value |-> u[propertyName], n |-> n + 2,
          calls |-> <<Call("New", TRUE), Call("GetUnitProperty", TRUE),
                      Call("Close", TRUE)>>]

\* The switch of unitIsEnabled over the UnitFileState string.
unitFileStateEnabled_Silent(value) ==
    CASE value \in {"enabled", "static", "enabled-runtime", "linked",
                    "linked-runtime"} -> [enabled |-> TRUE, err |-> Nil]
      [] OTHER -> [enabled |-> FALSE, err |-> Nil]

unitFileStateEnabled(value) ==
    CASE value \in {"enabled", "static", "enabled-runtime", "linked",
                    "linked-runtime"} -> [enabled |-> TRUE, err |-> Nil]
      [] value \in {"disabled", "masked", "masked-runtime"} ->
                    [enabled |-> FALSE, err |-> Nil]
      [] OTHER -> [enabled |-> FALSE, err |-> "Invalid unit state"]

\* unitIsEnabled: is the unit enabled at boot.
unitIsEnabled(u, F, n) ==
    LET unitState == unitProperty("UnitFileState", u, F, n)
    IN  IF unitState.err # Nil
        THEN [enabled |-> FALSE, err |-> unitState.err, n |-> unitState.n,
              calls |-> unitState.calls]
        ELSE LET r == unitFileStateEnabled(unitState.value)
             IN  [enabled |-> r.enabled, err |-> r.err, n |-> unitState.n,
                  calls |-> unitState.calls]

\* What EnableUnitFiles does to the unit file state when it succeeds.
EnableUnitFiles(fileState) ==
    IF fileState \in {"disabled", "indirect"} THEN "enabled" ELSE fileState

\* What DisableUnitFiles does to the unit file state when it succeeds.
DisableUnitFiles(fileState) ==
    IF fileState \in {"enabled", "enabled-runtime", "linked", "linked-runtime",
                      "indirect"}
    THEN "disabled" ELSE fileState

\* enableUnit with the connection closed on the success path only.
enableUnit_LeakOnError(u, F, n) ==
    IF n \in F
    THEN [err |-> "dbus.New", unit |-> u, n |-> n + 1,
          calls |-> <<Call("New", FALSE)>>]
    ELSE IF (n + 1) \in F
    THEN [err |-> "EnableUnitFiles", unit |-> u, n |-> n + 2,
          calls |-> <<Call("New", TRUE), Call("EnableUnitFiles", FALSE)>>]
    ELSE [err |-> Nil, n |-> n + 2,
          unit |-> [u EXCEPT !.UnitFileState = EnableUnitFiles(@)],
          calls |-> <<Call("New", TRUE), Call("EnableUnitFiles", TRUE),
                      Call("Close", TRUE)>>]

\* enableUnit: connect, EnableUnitFiles, close.
enableUnit(u, F, n) ==
    IF n \in F
    THEN [err |-> "dbus.New", unit |-> u, n |-> n + 1,
          calls |-> <<Call("New", FALSE)>>]
    ELSE IF (n + 1) \in F
    THEN [err |-> "EnableUnitFiles", unit |-> u, n |-> n + 2,
          calls |-> <<Call("New", TRUE), Call("EnableUnitFiles", FALSE),
                      Call("Close", TRUE)>>]
    ELSE [err |-> Nil, n |-> n + 2,
          unit |-> [u EXCEPT !.UnitFileState = EnableUnitFiles(@)],
          calls |-> <<Call("New", TRUE), Call("EnableUnitFiles", TRUE),
                      Call("Close", TRUE)>>]

\* disableUnit: connect, DisableUnitFiles, close.
disableUnit(u, F, n) ==
    IF n \in F
    THEN [err |-> "dbus.New", unit |-> u, n |-> n + 1,
          calls |-> <<Call("New", FALSE)>>]
    ELSE IF (n + 1) \in F
    THEN [err |-> "DisableUnitFiles", unit |-> u, n |-> n + 2,
          calls |-> <<Call("New", TRUE), Call("DisableUnitFiles", FALSE),
                      Call("Close", TRUE)>>]
    ELSE [err |-> Nil, n |-> n + 2,
          unit |-> [u EXCEPT !.UnitFileState = DisableUnitFiles(@)],
          calls |-> <<Call("New", TRUE), Call("DisableUnitFiles", TRUE),
                      Call("Close", TRUE)>>]

\* daemonReload: connect, Reload, close.
daemonReload(F, n) ==
    IF n \in F
    THEN [err |-> "dbus.New", n |-> n + 1, calls |-> <<Call("New", FALSE)>>]
    ELSE IF (n + 1) \in F
    THEN [err |-> "Reload", n |-> n + 2,
          calls |-> <<Call("New", TRUE), Call("Reload", FALSE),
                      Call("Close", TRUE)>>]
    ELSE [err |-> Nil, n |-> n + 2,
          calls |-> <<Call("New", TRUE), Call("Reload", TRUE),
                      Call("Close", TRUE)>>]

\* The switch of Evaluate over the ActiveState string.
activeStateCurrent_FailedRuns(value) ==
    CASE value \in {"active", "reloading", "activating", "failed"} -> StateRunning
      [] value \in {"inactive", "deactivating"} -> StateStopped
      [] OTHER -> StateUnknown

activeStateCurrent(value) ==
    CASE value \in {"active", "reloading", "activating"} -> StateRunning
      [] value \in {"inactive", "failed", "deactivating"} -> StateStopped
      [] OTHER -> StateUnknown

\* The comparison of Evaluate that decides State.Update.
needsUpdate_ByActivation(res, enabled, current) ==
    res.Enable # enabled \/ current # res.State

needsUpdate_Negated(res, enabled, current) == res.Enable = enabled

needsUpdate(res, enabled, current) == res.Enable # enabled

\* Evaluate: the State of the resource and the error it returns.
Evaluate(res, u, F) ==
    LET activeState == unitProperty("ActiveState", u, F, 1)
    IN  IF activeState.err # Nil
        THEN [rs |-> [Current |-> StateUnknown, Want |-> res.State,
                      Update |-> FALSE],
              err |-> activeState.err, calls |-> activeState.calls]
        ELSE LET current == activeStateCurrent(activeState.value)
                 e == unitIsEnabled(u, F, activeState.n)
             IN  IF e.err # Nil
                 THEN [rs |-> [Current |-> current, Want |-> res.State,
                               Update |-> FALSE],
                       err |-> e.err, calls |-> activeState.calls \o e.calls]
                 ELSE [rs |-> [Current |-> current, Want |-> res.State,
                               Update |-> needsUpdate(res, e.enabled, current)],
                       err |-> Nil, calls |-> activeState.calls \o e.calls]

\* What a start job does to the unit's activation, by the result it reports.
StartUnit(active, result) ==
    CASE result = "done" -> "active"
      [] result = "failed" -> "failed"
      [] OTHER -> active

\* What a stop job does to the unit's activation, by the result it reports.
StopUnit(active, result) ==
    CASE result = "done" -> "inactive"
      [] result = "failed" -> "failed"
      [] OTHER -> active

\* Create: connect, submit the start job, wait for its result, close.
Create(u, F, result) ==
    IF 1 \in F
    THEN [err |-> "dbus.New", unit |-> u, job |-> Nil,
          calls |-> <<Call("New", FALSE)>>]
    ELSE IF 2 \in F
    THEN [err |-> "StartUnit", unit |-> u, job |-> Nil,
          calls |-> <<Call("New", TRUE), Call("StartUnit", FALSE),
                      Call("Close", TRUE)>>]
    ELSE [err |-> Nil, job |-> result,
          unit |-> [u EXCEPT !.ActiveState = StartUnit(@, result)],
          calls |-> <<Call("New", TRUE), Call("StartUnit", TRUE),
                      Call("Close", TRUE)>>]

\* Delete: connect, submit the stop job, wait for its result, close.
Delete(u, F, result) ==
    IF 1 \in F
    THEN [err |-> "dbus.New", unit |-> u, job |-> Nil,
          calls |-> <<Call("New", FALSE)>>]
    ELSE IF 2 \in F
    THEN [err |-> "StopUnit", unit |-> u, job |-> Nil,
          calls |-> <<Call("New", TRUE), Call("StopUnit", FALSE),
                      Call("Close", TRUE)>>]
    ELSE [err |-> Nil, job |-> result,
          unit |-> [u EXCEPT !.ActiveState = StopUnit(@, result)],
          calls |-> <<Call("New", TRUE), Call("StopUnit", TRUE),
                      Call("Close", TRUE)>>]

\* Update returning the error of enableUnit / disableUnit instead of going
\* on to the reload.
Update_ReloadOnSuccess(res, u, F) ==
    LET e == unitIsEnabled(u, F, 1)
    IN  IF e.err # Nil
        THEN [err |-> e.err, unit |-> u, calls |-> e.calls]
        ELSE LET a == IF res.Enable /\ ~e.enabled
                      THEN enableUnit(u, F, e.n)
                      ELSE disableUnit(u, F, e.n)
                 r == daemonReload(F, a.n)
             IN  IF a.err # Nil
                 THEN [err |-> a.err, unit |-> a.unit, calls |-> e.calls \o a.calls]
                 ELSE [err |-> r.err, unit |-> a.unit,
                       calls |-> e.calls \o a.calls \o r.calls]

\* Update: read the enablement, enable or disable, then reload.  The error
\* of enableUnit / disableUnit is dropped.
Update(res, u, F) ==
    LET e == unitIsEnabled(u, F, 1)
    IN  IF e.err # Nil
        THEN [err |-> e.err, unit |-> u, calls |-> e.calls]
        ELSE LET a == IF res.Enable /\ ~e.enabled
                      THEN enableUnit(u, F, e.n)
                      ELSE disableUnit(u, F, e.n)
                 r == daemonReload(F, a.n)
             IN  [err |-> r.err, unit |-> a.unit,
                  calls |-> e.calls \o a.calls \o r.calls]

NoState == [Current |-> StateUnknown, Want |-> StateUnknown, Update |-> FALSE]

\* What is remembered of an operation once a later one has run.
Brief(o) == [op |-> o.op, err |-> o.err, rs |-> o.rs, job |-> o.job]

NoOp == [op |-> "none", err |-> Nil, rs |-> NoState, job |-> Nil]

Shift(o) ==
    /\ last' = o
    /\ prev' = Brief(last)
    /\ prev2' = IF prev.op = "Evaluate" /\ prev.err = Nil THEN prev.rs ELSE NoState

InitService ==
    /\ s \in [State : {StateRunning, StateStopped}, Enable : BOOLEAN]
    /\ unit \in [ActiveState : ActiveStates, UnitFileState : UnitFileStates]
    /\ last = [op |-> "none", err |-> Nil, rs |-> NoState, job |-> Nil,
               calls |-> <<>>]
    /\ prev = NoOp
    /\ prev2 = NoState

CallEvaluate ==
    \E F \in Failures(4, 1) :
        LET r == Evaluate(s, unit, F)
        IN  /\ Shift([op |-> "Evaluate", err |-> r.err, rs |-> r.rs, job |-> Nil,
                      calls |-> r.calls])
            /\ UNCHANGED <<s, unit, storeVars, submitVars, gac, fanVars, cmd>>

CallCreate ==
    \E F \in Failures(2, 1), result \in JobResults :
        LET r == Create(unit, F, result)
        IN  /\ Shift([op |-> "Create", err |-> r.err, rs |-> NoState,
                      job |-> r.job, calls |-> r.calls])
            /\ unit' = r.unit
            /\ UNCHANGED <<s, storeVars, submitVars, gac, fanVars, cmd>>

CallDelete ==
    \E F \in Failures(2, 1), result \in JobResults :
        LET r == Delete(unit, F, result)
        IN  /\ Shift([op |-> "Delete", err |-> r.err, rs |-> NoState,
                      job |-> r.job, calls |-> r.calls])
            /\ unit' = r.unit
            /\ UNCHANGED <<s, storeVars, submitVars, gac, fanVars, cmd>>

CallUpdate ==
    \E F \in Failures(6, 2) :
        LET r == Update(s, unit, F)
        IN  /\ Shift([op |-> "Update", err |-> r.err, rs |-> NoState,
                      job |-> Nil, calls |-> r.calls])
            /\ unit' = r.unit
            /\ UNCHANGED <<s, storeVars, submitVars, gac, fanVars, cmd>>

\* The reconciliation engine: the action the State returned by Evaluate
\* selects.  Current = Unknown selects none and is an error of the pass.
Selected(rs) ==
    CASE rs.Current = StateStopped /\ rs.Want = StateRunning -> "Create"
      [] rs.Current = StateRunning /\ rs.Want = StateStopped -> "Delete"
      [] rs.Current = rs.Want /\ rs.Update -> "Update"
      [] rs.Current = rs.Want /\ ~rs.Update -> "NoOp"
      [] OTHER -> "Error"

\* The record of a step of the engine that calls nothing.
Pass(op) == [op |-> op, err |-> Nil, rs |-> NoState, job |-> Nil, calls |-> <<>>]

\* The action of the running pass, once Evaluate has returned a State.
Acting(op) ==
    /\ last.op = "Evaluate"
    /\ last.err = Nil
    /\ Selected(last.rs) = op

\* A pass starts: Evaluate, with a capability layer whose calls all succeed.
PassEvaluate ==
    /\ last.op # "Evaluate"
    /\ LET r == Evaluate(s, unit, {})
       IN  Shift([op |-> "Evaluate", err |-> r.err, rs |-> r.rs, job |-> Nil,
                  calls |-> r.calls])
    /\ UNCHANGED <<s, unit, storeVars, submitVars, gac, fanVars, cmd>>

\* The pass ends with Create, whose start job takes effect.
PassCreate ==
    /\ Acting("Create")
    /\ LET r == Create(unit, {}, "done")
       IN  /\ Shift([op |-> "Create", err |-> r.err, rs |-> NoState,
                     job |-> r.job, calls |-> r.calls])
           /\ unit' = r.unit
    /\ UNCHANGED <<s, storeVars, submitVars, gac, fanVars, cmd>>

\* The pass ends with Delete, whose stop job takes effect.
PassDelete ==
    /\ Acting("Delete")
    /\ LET r == Delete(unit, {}, "done")
       IN  /\ Shift([op |-> "Delete", err |-> r.err, rs |-> NoState,
                     job |-> r.job, calls |-> r.calls])
           /\ unit' = r.unit
    /\ UNCHANGED <<s, storeVars, submitVars, gac, fanVars, cmd>>

\* The pass ends with Update.
PassUpdate ==
    /\ Acting("Update")
    /\ LET r == Update(s, unit, {})
       IN  /\ Shift([op |-> "Update", err |-> r.err, rs |-> NoState,
                     job |-> Nil, calls |-> r.calls])
           /\ unit' = r.unit
    /\ UNCHANGED <<s, storeVars, submitVars, gac, fanVars, cmd>>

\* The pass ends without an action: the resource is as declared.
PassNoOp ==
    /\ Acting("NoOp")
    /\ Shift(Pass("NoOp"))
    /\ UNCHANGED <<s, unit, storeVars, submitVars, gac, fanVars, cmd>>

\* The pass ends in an error: Evaluate failed, or Current is Unknown.
PassError ==
    /\ last.op = "Evaluate"
    /\ last.err # Nil \/ Selected(last.rs) = "Error"
    /\ Shift(Pass("Error"))
    /\ UNCHANGED <<s, unit, storeVars, submitVars, gac, fanVars, cmd>>

\* The service resource before any operation, for the specifications that
\* are not about it.
IdleService ==
    /\ s = [State |-> StateRunning, Enable |-> FALSE]
    /\ unit = [ActiveState |-> "inactive", UnitFileState |-> "disabled"]
    /\ last = [op |-> "none", err |-> Nil, rs |-> NoState, job |-> Nil,
               calls |-> <<>>]
    /\ prev = NoOp
    /\ prev2 = NoState

(***************************************************************************)
(* EtcdMinionClient: SubmitTask and GetAllClassifiers                      *)
(***************************************************************************)

\* Bounds of the model.
NumMinions == 3
MaxTasks == 3
MaxChildren == 3

Minions == 1..NumMinions
Tasks == 1..MaxTasks

\* The minions enumerated by GetClassifiedMinions, and those enumerated by
\* GetTask (whose workers take more steps per minion).
FleetSize == 5
TaskFleetSize == 3
Fleet == 1..FleetSize

\* json.Marshal of a task or classifier, and the node values that are no JSON.
Marshal(x) == <<"json", x>>
Garbage == <<"not json">>

\* json.Unmarshal of a node value.
Unmarshal(value) ==
    IF value[1] # "json"
    THEN [v |-> Nil, err |-> "json"]
    ELSE [v |-> value[2], err |-> Nil]

\* The classifiers a minion can carry.
Classifiers == {[Key |-> "env", Value |-> "prod"], [Key |-> "role", Value |-> "web"]}

NodeValues == {Marshal(c) : c \in Classifiers} \cup {Garbage}

SeqsUpTo(S, n) == UNION {[1..k -> S] : k \in 0..n}

\* KAPI.Get of a minion's root directory: the error it returns.
getRootErr_Unchecked(u, storeOk) == Nil

getRootErr(u, storeOk) ==
    IF ~storeOk THEN "Get: unavailable"
    ELSE IF u \notin root THEN "KeyNotFound"
    ELSE Nil

\* KAPI.CreateInOrder: a new node of the directory, named by the store's
\* next index.
CreateInOrder_ByLength(dir, value) ==
    LET k == Cardinality(dir) + 1
    IN  [dir |-> {n \in dir : n.key # k} \cup {[key |-> k, value |-> value]},
         key |-> k, index |-> index + 1]

CreateInOrder(dir, value) ==
    LET k == index + 1
    IN  [dir |-> {n \in dir : n.key # k} \cup {[key |-> k, value |-> value]},
         key |-> k, index |-> k]

Done(t, e, k) ==
    call' = [call EXCEPT ![t] = [pc |-> "done", u |-> call[t].u, err |-> e,
                                 key |-> k]]

\* SubmitTask is called for task t and minion u.
SubmitTask(t, u) ==
    /\ call[t].pc = "idle"
    /\ call' = [call EXCEPT ![t] = [pc |-> "get", u |-> u, err |-> Nil, key |-> 0]]
    /\ before' = [before EXCEPT ![t] =
                     {t1 \in Tasks : /\ call[t1].pc = "done"
                                     /\ call[t1].err = Nil
                                     /\ call[t1].u = u}]
    /\ UNCHANGED <<svcVars, storeVars, consumed, gac, fanVars, cmd>>

\* SubmitTask reads the minion's root directory and serialises the task.
SubmitGet(t) ==
    /\ call[t].pc = "get"
    /\ \E storeOk \in BOOLEAN, marshalOk \in BOOLEAN :
          LET e == getRootErr(call[t].u, storeOk)
          IN  IF e # Nil THEN Done(t, e, 0)
              ELSE IF ~marshalOk THEN Done(t, "json.Marshal", 0)
              ELSE call' = [call EXCEPT ![t].pc = "create"]
    /\ UNCHANGED <<svcVars, storeVars, before, consumed, gac, fanVars, cmd>>

\* SubmitTask creates the in-order node.  A request that fails has either
\* not reached the store or was applied with its answer lost.
SubmitCreate(t) ==
    /\ call[t].pc = "create"
    /\ \E answered \in BOOLEAN, applied \in BOOLEAN :
          LET u == call[t].u
              r == CreateInOrder(queueDir[u], Marshal(t))
          IN  /\ answered => applied
              /\ Done(t, IF answered THEN Nil ELSE "CreateInOrder: unavailable",
                         IF applied THEN r.key ELSE 0)
              /\ IF applied
                 THEN /\ queueDir' = [queueDir EXCEPT ![u] = r.dir]
                      /\ index' = r.index
                 ELSE UNCHANGED <<queueDir, index>>
    /\ UNCHANGED <<svcVars, root, classifierDir, before, consumed, gac, fanVars, cmd>>

\* The minion u takes the first task off its queue.
Consume(u) ==
    /\ queueDir[u] # {}
    /\ LET first == CHOOSE n \in queueDir[u] : \A m \in queueDir[u] : n.key <= m.key
       IN  /\ queueDir' = [queueDir EXCEPT ![u] = @ \ {first}]
           /\ consumed' = consumed \cup {Unmarshal(first.value).v}
    /\ UNCHANGED <<svcVars, root, index, classifierDir, call, before, gac, fanVars, cmd>>

\* GetAllClassifiers: the classifiers decoded so far and the error.
RECURSIVE decodeAll(_, _)
decodeAll(ns, classifiers) ==
    IF ns = <<>> THEN [classifiers |-> classifiers, err |-> Nil]
    ELSE LET k == Unmarshal(Head(ns))
         IN  IF k.err # Nil
             THEN [classifiers |-> classifiers, err |-> k.err]
             ELSE decodeAll(Tail(ns), Append(classifiers, k.v))

GetAllClassifiers(u, storeOk) ==
    IF ~storeOk THEN [classifiers |-> <<>>, err |-> "unavailable"]
    ELSE IF ~classifierDir[u].found THEN [classifiers |-> <<>>, err |-> "KeyNotFound"]
    ELSE decodeAll(classifierDir[u].nodes, <<>>)

CallGetAllClassifiers ==
    /\ \E u \in Minions, storeOk \in BOOLEAN :
          LET r == GetAllClassifiers(u, storeOk)
          IN  gac' = [u |-> u, ok |-> storeOk, classifiers |-> r.classifiers,
                      err |-> r.err]
    /\ UNCHANGED <<svcVars, storeVars, submitVars, fanVars, cmd>>

NoDir == [found |-> FALSE, nodes |-> <<>>]

NoCall == [pc |-> "idle", u |-> 0, err |-> Nil, key |-> 0]

IdleSubmit ==
    /\ call = [t \in Tasks |-> NoCall]
    /\ before = [t \in Tasks |-> {}]
    /\ consumed = {}

\* The command before it is run.
NoCommand ==
    [pc |-> "idle", args |-> <<>>, minion |-> 0, keys |-> <<>>, i |-> 0,
     rows |-> <<>>, listErr |-> Nil, readErr |-> Nil, lists |-> 0, reads |-> 0,
     exit |-> 0, out |-> Nil]

IdleCommand == cmd = NoCommand

IdleGac == gac = [u |-> 0, ok |-> TRUE, classifiers |-> <<>>, err |-> Nil]

InitStore ==
    /\ queueDir = [u \in Minions |-> {}]
    /\ index = 0

(***************************************************************************)
(* EtcdMinionClient: GetClassifiedMinions and GetTask                      *)
(***************************************************************************)

\* Max number of concurrent requests against the etcd cluster.
maxGoroutines == 4

\* Capacity of the channel queue.
queueCap == 1024

\* Node keys: the directory of a minion is named by the canonical string of
\* its uuid; any other name under the minion space is no uuid.
String(u) == <<"uuid", u>>
NotUUID == <<"lost+found">>

\* uuid.Parse(path.Base(node.Key)): the uuid, or 0 for the nil uuid.
Parse(k) == IF k[1] = "uuid" THEN k[2] ELSE 0

\* The listing of a minion space of n minions: every minion, and one
\* stray node.
Listing(n) == <<String(1), NotUUID>> \o [i \in 1..(n - 1) |-> String(i + 1)]

\* What minion m has stored: its own classifier, or its own task result.
ClassifierOf(m) == [Key |-> "role", Value |-> <<"web", m>>]
TaskOf(m) == [Result |-> <<"output of", m>>]
Stored(m) == IF query = "classifier" THEN ClassifierOf(m) ELSE TaskOf(m)

\* An etcd Response; NoResponse is the nil *Response an error comes with.
Response(ns, value) == [isNil |-> FALSE, Node |-> [Nodes |-> ns, Value |-> value]]
NoResponse == [isNil |-> TRUE, Node |-> [Nodes |-> <<>>, Value |-> <<>>]]

\* What the store can hold for a minion at the moment it is read.
Kinds == {"ok", "garbage", "none"}

\* The store is read for minion m: the read finds what an earlier read of
\* the same key found, or fixes what the minion holds.
Found(m) == IF entry[m] = "unread" THEN Kinds ELSE {entry[m]}

\* KAPI.Get of the per-minion key holding kind: the response and the error.
Get(m, kind) ==
    IF kind = "none" THEN [resp |-> NoResponse, err |-> "KeyNotFound"]
    ELSE IF kind = "garbage" THEN [resp |-> Response(<<>>, Garbage), err |-> Nil]
    ELSE [resp |-> Response(<<>>, Marshal(Stored(m))), err |-> Nil]

\* GetClassifier: KAPI.Get, then json.Unmarshal of the node's value.
GetClassifier_DecodeErrorDropped(m, kind) ==
    LET r == Get(m, kind)
        k == Unmarshal(r.resp.Node.Value)
    IN  IF r.err # Nil THEN [v |-> Nil, err |-> r.err]
        ELSE [v |-> IF k.err # Nil THEN [Key |-> "", Value |-> <<>>] ELSE k.v,
              err |-> Nil]

GetClassifier(m, kind) ==
    LET r == Get(m, kind)
    IN  IF r.err # Nil THEN [v |-> Nil, err |-> r.err]
        ELSE Unmarshal(r.resp.Node.Value)

\* minion.UnmarshalEtcdMinionTask: the task decoded from a node.
UnmarshalEtcdMinionTask(node) == Unmarshal(node.Value)

\* cm.Set
Set(m, key, value) == {e \in m : e.Key # key} \cup {[Key |-> key, Value |-> value]}

\* A worker as go worker() starts it, and one worker moving on.
NewWorker == [pc |-> "range", minionUUID |-> 0, t |-> <<>>]
Step(w, w2) == worker' = (worker (-) SetToBag({w})) (+) SetToBag({w2})

FanOutVars(q, n) ==
    /\ query = q
    /\ nodes = Listing(n)
    /\ callerPc = "start"
    /\ resp = NoResponse
    /\ err = Nil
    /\ queue = <<>>
    /\ closed = FALSE
    /\ producer = [pc |-> "unstarted", nodes |-> <<>>, i |-> 0]
    /\ wg = 0
    /\ worker = EmptyBag
    /\ cm = {}
    /\ ret = [returned |-> FALSE, result |-> {}, err |-> Nil]
    /\ crashed = FALSE
    /\ lookups = [m \in Fleet |-> 0]
    /\ entry = [m \in Fleet |-> "unread"]

IdleFanOut == FanOutVars("none", 1)

UNCHANGED_others ==
    UNCHANGED <<svcVars, storeVars, submitVars, gac, query, nodes, cmd>>
UNCHANGED_rest == UNCHANGED_others /\ UNCHANGED entry

\* List with the producer started before the error is examined.
List_StartsBeforeCheck ==
    /\ ~crashed
    /\ callerPc = "start"
    /\ \E storeOk \in BOOLEAN :
          IF storeOk
          THEN /\ resp' = Response(nodes, <<>>)
               /\ err' = Nil
               /\ callerPc' = "go producer"
               /\ UNCHANGED ret
          ELSE /\ resp' = NoResponse
               /\ err' = "unavailable"
               /\ callerPc' = "go producer"
               /\ ret' = [returned |-> TRUE, result |-> {}, err |-> "unavailable"]
    /\ UNCHANGED <<queue, closed, producer, wg, worker, cm, crashed, lookups>>
    /\ UNCHANGED_rest

\* The caller lists the minion space; on an error it returns.
List ==
    /\ ~crashed
    /\ callerPc = "start"
    /\ \E storeOk \in BOOLEAN :
          IF storeOk
          THEN /\ resp' = Response(nodes, <<>>)
               /\ err' = Nil
               /\ callerPc' = "go producer"
               /\ UNCHANGED ret
          ELSE /\ resp' = NoResponse
               /\ err' = "unavailable"
               /\ callerPc' = "returned"
               /\ ret' = [returned |-> TRUE, result |-> {}, err |-> "unavailable"]
    /\ UNCHANGED <<queue, closed, producer, wg, worker, cm, crashed, lookups>>
    /\ UNCHANGED_rest

\* go producer()
GoProducer ==
    /\ ~crashed
    /\ callerPc = "go producer"
    /\ producer' = [producer EXCEPT !.pc = "range"]
    /\ callerPc' = "go worker"
    /\ UNCHANGED <<resp, err, queue, closed, wg, worker, cm, ret, crashed, lookups>>
    /\ UNCHANGED_rest

\* GoWorker starting one worker per node of the listing.
GoWorker_PerNode ==
    /\ ~crashed
    /\ callerPc = "go worker"
    /\ wg' = wg + 1
    /\ worker' = worker (+) SetToBag({NewWorker})
    /\ callerPc' = IF BagCardinality(worker) + 1 < Len(nodes)
                   THEN "go worker" ELSE "wait"
    /\ UNCHANGED <<resp, err, queue, closed, producer, cm, ret, crashed, lookups>>
    /\ UNCHANGED_rest

\* wg.Add(1); go worker(), once per round of the loop.
GoWorker ==
    /\ ~crashed
    /\ callerPc = "go worker"
    /\ wg' = wg + 1
    /\ worker' = worker (+) SetToBag({NewWorker})
    /\ callerPc' = IF BagCardinality(worker) + 1 < maxGoroutines
                   THEN "go worker" ELSE "wait"
    /\ UNCHANGED <<resp, err, queue, closed, producer, cm, ret, crashed, lookups>>
    /\ UNCHANGED_rest

\* wg.Wait() returns.
Wait ==
    /\ ~crashed
    /\ callerPc = "wait"
    /\ wg = 0
    /\ callerPc' = "copy"
    /\ UNCHANGED <<resp, err, queue, closed, producer, wg, worker, cm, ret, crashed,
                   lookups>>
    /\ UNCHANGED_rest

\* The caller copies the concurrent map into the result and returns it.
Copy ==
    /\ ~crashed
    /\ callerPc = "copy"
    /\ ret' = [returned |-> TRUE, result |-> cm, err |-> Nil]
    /\ callerPc' = "returned"
    /\ UNCHANGED <<resp, err, queue, closed, producer, wg, worker, cm, crashed, lookups>>
    /\ UNCHANGED_rest

\* The producer evaluates the range expression resp.Node.Nodes.
ProducerRange ==
    /\ ~crashed
    /\ producer.pc = "range"
    /\ producer' = [pc |-> "send", nodes |-> resp.Node.Nodes, i |-> 1]
    /\ UNCHANGED <<callerPc, resp, err, queue, closed, wg, worker, cm, ret, crashed,
                   lookups>>
    /\ UNCHANGED_rest

\* The producer handles one node: a name that is no uuid is logged and
\* skipped, a uuid is sent over the channel.
ProducerSend ==
    /\ ~crashed
    /\ producer.pc = "send"
    /\ producer.i <= Len(producer.nodes)
    /\ LET u == Parse(producer.nodes[producer.i])
       IN  IF u = 0
           THEN UNCHANGED queue
           ELSE /\ Len(queue) < queueCap
                /\ queue' = Append(queue, u)
    /\ producer' = [producer EXCEPT !.i = @ + 1]
    /\ UNCHANGED <<callerPc, resp, err, closed, wg, worker, cm, ret, crashed, lookups>>
    /\ UNCHANGED_rest

\* close(queue)
ProducerClose ==
    /\ ~crashed
    /\ producer.pc = "send"
    /\ producer.i > Len(producer.nodes)
    /\ closed' = TRUE
    /\ producer' = [producer EXCEPT !.pc = "done"]
    /\ UNCHANGED <<callerPc, resp, err, queue, wg, worker, cm, ret, crashed, lookups>>
    /\ UNCHANGED_rest

\* A worker receives the next uuid from the channel.
WorkerReceive(w) ==
    /\ ~crashed
    /\ w.pc = "range"
    /\ queue # <<>>
    /\ Step(w, [pc |-> "get", minionUUID |-> Head(queue), t |-> <<>>])
    /\ queue' = Tail(queue)
    /\ lookups' = [lookups EXCEPT ![Head(queue)] = IF @ = 0 THEN 1 ELSE 2]
    /\ UNCHANGED <<callerPc, resp, err, closed, producer, wg, cm, ret, crashed>>
    /\ UNCHANGED_rest

\* A worker finds the channel closed and empty: wg.Done().
WorkerExit(w) ==
    /\ ~crashed
    /\ w.pc = "range"
    /\ queue = <<>>
    /\ closed
    /\ Step(w, [w EXCEPT !.pc = "done"])
    /\ wg' = wg - 1
    /\ UNCHANGED <<callerPc, resp, err, queue, closed, producer, cm, ret, crashed,
                   lookups>>
    /\ UNCHANGED_rest

\* GetClassifiedMinions: klassifier, err := c.GetClassifier(minionUUID, key)
WorkerGetClassifier(w) ==
    /\ ~crashed
    /\ query = "classifier"
    /\ w.pc = "get"
    /\ \E kind \in Found(w.minionUUID) :
          LET r == GetClassifier(w.minionUUID, kind)
          IN  /\ Step(w, IF r.err # Nil
                         THEN [w EXCEPT !.pc = "range"]
                         ELSE [w EXCEPT !.pc = "set", !.t = <<r.v>>])
              /\ entry' = [entry EXCEPT ![w.minionUUID] = kind]
    /\ UNCHANGED <<callerPc, resp, err, queue, closed, producer, wg, cm, ret, crashed,
                   lookups>>
    /\ UNCHANGED_others

\* GetTask: resp, err = c.KAPI.Get(...), an assignment to the variables
\* resp and err of GetTask, which all workers share.
WorkerGetTask(w) ==
    /\ ~crashed
    /\ query = "task"
    /\ w.pc = "get"
    /\ \E kind \in Found(w.minionUUID) :
          LET r == Get(w.minionUUID, kind)
          IN  /\ resp' = r.resp
              /\ err' = r.err
              /\ entry' = [entry EXCEPT ![w.minionUUID] = kind]
    /\ Step(w, [w EXCEPT !.pc = "check"])
    /\ UNCHANGED <<callerPc, queue, closed, producer, wg, cm, ret, crashed, lookups>>
    /\ UNCHANGED_others

\* GetTask: if err != nil { continue }, reading the shared err.
WorkerCheckErr(w) ==
    /\ ~crashed
    /\ w.pc = "check"
    /\ Step(w, [w EXCEPT !.pc = IF err # Nil THEN "range" ELSE "decode"])
    /\ UNCHANGED <<callerPc, resp, err, queue, closed, producer, wg, cm, ret, crashed,
                   lookups>>
    /\ UNCHANGED_rest

\* GetTask: t, err := minion.UnmarshalEtcdMinionTask(resp.Node), reading the
\* shared resp; resp.Node with resp nil panics.
WorkerDecode(w) ==
    /\ ~crashed
    /\ w.pc = "decode"
    /\ IF resp.isNil
       THEN /\ crashed' = TRUE
            /\ UNCHANGED worker
       ELSE LET r == UnmarshalEtcdMinionTask(resp.Node)
            IN  /\ Step(w, IF r.err # Nil
                            THEN [w EXCEPT !.pc = "range"]
                            ELSE [w EXCEPT !.pc = "set", !.t = <<r.v>>])
                /\ UNCHANGED crashed
    /\ UNCHANGED <<callerPc, resp, err, queue, closed, producer, wg, cm, ret, lookups>>
    /\ UNCHANGED_rest

\* cm.Set(minionUUID.String(), ...)
WorkerSet(w) ==
    /\ ~crashed
    /\ w.pc = "set"
    /\ cm' = Set(cm, String(w.minionUUID), w.t[1])
    /\ Step(w, [w EXCEPT !.pc = "range", !.t = <<>>])
    /\ UNCHANGED <<callerPc, resp, err, queue, closed, producer, wg, ret, crashed,
                   lookups>>
    /\ UNCHANGED_rest

Caller == List \/ GoProducer \/ GoWorker \/ Wait \/ Copy

Producer == ProducerRange \/ ProducerSend \/ ProducerClose

InitFanOut(q, n) ==
    /\ IdleService
    /\ InitStore
    /\ root = Minions
    /\ classifierDir = [u \in Minions |-> NoDir]
    /\ IdleSubmit
    /\ IdleGac
    /\ IdleCommand
    /\ FanOutVars(q, n)

InitGetClassifiedMinions == InitFanOut("classifier", FleetSize)

NextGetClassifiedMinions ==
    \/ Caller
    \/ Producer
    \/ \E w \in BagToSet(worker) : WorkerReceive(w)
    \/ \E w \in BagToSet(worker) : WorkerExit(w)
    \/ \E w \in BagToSet(worker) : WorkerGetClassifier(w)
    \/ \E w \in BagToSet(worker) : WorkerSet(w)

SpecGetClassifiedMinions ==
    InitGetClassifiedMinions /\ [][NextGetClassifiedMinions]_vars

\* The Go scheduler runs some runnable goroutine as long as there is one.
FairSpecGetClassifiedMinions ==
    SpecGetClassifiedMinions /\ WF_vars(NextGetClassifiedMinions)

InitGetTask == InitFanOut("task", TaskFleetSize)

NextGetTask ==
    \/ Caller
    \/ Producer
    \/ \E w \in BagToSet(worker) : WorkerReceive(w)
    \/ \E w \in BagToSet(worker) : WorkerExit(w)
    \/ \E w \in BagToSet(worker) : WorkerGetTask(w)
    \/ \E w \in BagToSet(worker) : WorkerCheckErr(w)
    \/ \E w \in BagToSet(worker) : WorkerDecode(w)
    \/ \E w \in BagToSet(worker) : WorkerSet(w)

SpecGetTask == InitGetTask /\ [][NextGetTask]_vars

(***************************************************************************)
(* gructl: the command "classifier"                                        *)
(***************************************************************************)

\* The arguments the command can be given: none, a string that is no uuid,
\* or the uuid of a minion.
Args == {<<>>, <<NotUUID>>} \cup {<<String(u)>> : u \in Minions}

\* client.MinionClassifierKeys: the keys of the classifiers listed under the
\* minion's classifier directory, and the error of the listing.
MinionClassifierKeys(u, storeOk) ==
    LET r == GetAllClassifiers(u, storeOk)
    IN  [keys |-> [i \in 1..Len(r.classifiers) |-> r.classifiers[i].Key],
         err |-> r.err]

\* What a single-key read can meet: the classifier, no such key (it was
\* removed after the listing), or a store that does not answer.
ReadOutcomes == {"ok", "none", "unavailable"}

\* client.MinionClassifier: the single-key read of classifier/<key>.
MinionClassifier(u, key, outcome) ==
    CASE outcome = "unavailable" -> [v |-> [Key |-> "", Value |-> ""],
                                     err |-> "unavailable"]
      [] outcome = "none" -> [v |-> [Key |-> "", Value |-> ""],
                              err |-> "KeyNotFound"]
      [] OTHER -> [v |-> CHOOSE c \in Classifiers : c.Key = key, err |-> Nil]

\* displayError: the error is printed and the process exits with the code.
displayError(e, code) ==
    cmd' = [cmd EXCEPT !.pc = "exited", !.exit = code, !.out = e]

\* The test of the listing's error: anything but the store's "key not
\* found" is displayed.
isDisplayed_EveryError(e) == TRUE

isDisplayed(e) == e # "KeyNotFound"

\* The command is run with some arguments.
RunCommand ==
    /\ cmd.pc = "idle"
    /\ \E args \in Args : cmd' = [cmd EXCEPT !.pc = "args", !.args = args]
    /\ UNCHANGED <<svcVars, storeVars, submitVars, gac, fanVars>>

\* The argument checks: no argument, or an argument that is no uuid.
CommandArgs ==
    /\ cmd.pc = "args"
    /\ IF Len(cmd.args) = 0 THEN displayError("errNoMinion", 64)
       ELSE IF Parse(cmd.args[1]) = 0 THEN displayError("errInvalidUUID", 64)
       ELSE cmd' = [cmd EXCEPT !.pc = "list", !.minion = Parse(cmd.args[1])]
    /\ UNCHANGED <<svcVars, storeVars, submitVars, gac, fanVars>>

\* The listing of the classifier keys, the test of its error and the test
\* for an empty list.
CommandList ==
    /\ cmd.pc = "list"
    /\ \E storeOk \in BOOLEAN :
          LET r == MinionClassifierKeys(cmd.minion, storeOk)
              c == [cmd EXCEPT !.lists = @ + 1, !.listErr = r.err, !.keys = r.keys]
          IN  IF r.err # Nil /\ isDisplayed(r.err)
              THEN cmd' = [c EXCEPT !.pc = "exited", !.exit = 1, !.out = r.err]
              ELSE IF Len(r.keys) = 0
              THEN cmd' = [c EXCEPT !.pc = "exited"]
              ELSE cmd' = [c EXCEPT !.pc = "read", !.i = 1]
    /\ UNCHANGED <<svcVars, storeVars, submitVars, gac, fanVars>>

\* One round of the loop over the keys: the single-key read and the row
\* added to the table; after the last key the table is printed.
CommandRead ==
    /\ cmd.pc = "read"
    /\ \E outcome \in ReadOutcomes :
          LET r == MinionClassifier(cmd.minion, cmd.keys[cmd.i], outcome)
              c == [cmd EXCEPT !.reads = @ + 1, !.readErr = r.err]
          IN  IF r.err # Nil
              THEN cmd' = [c EXCEPT !.pc = "exited", !.exit = 1, !.out = r.err]
              ELSE cmd' = [c EXCEPT !.rows = Append(@, r.v),
                                    !.i = @ + 1,
                                    !.pc = IF cmd.i = Len(cmd.keys)
                                           THEN "exited" ELSE "read"]
    /\ UNCHANGED <<svcVars, storeVars, submitVars, gac, fanVars>>

NextCommand == RunCommand \/ CommandArgs \/ CommandList \/ CommandRead

InitSubmit ==
    /\ IdleFanOut
    /\ IdleService
    /\ InitStore
    /\ root = Minions \ {NumMinions}
    /\ classifierDir = [u \in Minions |-> NoDir]
    /\ IdleSubmit
    /\ IdleGac
    /\ IdleCommand

InitClassifiers ==
    /\ IdleFanOut
    /\ IdleService
    /\ InitStore
    /\ root = Minions
    /\ \E d \in [found : BOOLEAN, nodes : SeqsUpTo(NodeValues, MaxChildren)] :
          /\ ~d.found => d.nodes = <<>>
          /\ classifierDir = [u \in Minions |-> IF u = 1 THEN d ELSE NoDir]
    /\ IdleSubmit
    /\ IdleGac
    /\ IdleCommand

InitSvc ==
    /\ IdleFanOut
    /\ InitService
    /\ InitStore
    /\ root = Minions
    /\ classifierDir = [u \in Minions |-> NoDir]
    /\ IdleSubmit
    /\ IdleGac
    /\ IdleCommand

NextSvc == CallEvaluate \/ CallCreate \/ CallDelete \/ CallUpdate

SpecSvc == InitSvc /\ [][NextSvc]_vars

NextReconcile ==
    PassEvaluate \/ PassCreate \/ PassDelete \/ PassUpdate \/ PassNoOp \/ PassError

SpecReconcile == InitSvc /\ [][NextReconcile]_vars

\* The engine goes on to the next pass as long as the process runs.
FairSpecReconcile == SpecReconcile /\ WF_vars(NextReconcile)

NextSubmit ==
    \/ \E t \in Tasks, u \in Minions : SubmitTask(t, u)
    \/ \E t \in Tasks : SubmitGet(t)
    \/ \E t \in Tasks : SubmitCreate(t)
    \/ \E u \in Minions : Consume(u)

SpecSubmit == InitSubmit /\ [][NextSubmit]_vars

NextClassifiers == CallGetAllClassifiers

SpecClassifiers == InitClassifiers /\ [][NextClassifiers]_vars

SpecCommand == InitClassifiers /\ [][NextCommand]_vars

(***************************************************************************)
(* Properties of ServiceResource                                           *)
(***************************************************************************)

\* The UnitFileState strings that mean "enabled at boot" and "not enabled".
EnabledStrings == {"enabled", "static", "enabled-runtime", "linked", "linked-runtime"}
DisabledStrings == {"disabled", "masked", "masked-runtime"}

\* The last operation received the ActiveState string from systemd.
GotActiveState ==
    /\ Len(last.calls) >= 2
    /\ last.calls[2] = Call("GetUnitProperty", TRUE)

\* Every capability call of the last operation succeeded.
AllCallsOk == \A i \in 1..Len(last.calls) : last.calls[i].ok

\* C7: when Evaluate returns without error, State.Update is TRUE exactly
\* when the declared Enable flag differs from the observed boot-enablement,
\* whatever the activation state and Want are.
C7_UpdateIffEnablementDiffers ==
    (last.op = "Evaluate" /\ last.err = Nil) =>
        (last.rs.Update <=> (s.Enable # (unit.UnitFileState \in EnabledStrings)))

\* Evaluate returned Update = TRUE although Current already equals Want.
C7_Witness ==
    /\ last.op = "Evaluate"
    /\ last.err = Nil
    /\ last.rs.Update
    /\ last.rs.Current = last.rs.Want
    /\ s.Enable # (unit.UnitFileState \in EnabledStrings)

\* C8: Evaluate maps active, reloading, activating to Running; inactive,
\* failed, deactivating to Stopped; any other string to Unknown; and Want is
\* always the declared state.
C8_ActivationMapping ==
    last.op = "Evaluate" =>
        /\ last.rs.Want = s.State
        /\ GotActiveState =>
              /\ unit.ActiveState \in {"active", "reloading", "activating"}
                    => last.rs.Current = StateRunning
              /\ unit.ActiveState \in {"inactive", "failed", "deactivating"}
                    => last.rs.Current = StateStopped
              /\ unit.ActiveState \notin {"active", "reloading", "activating",
                                          "inactive", "failed", "deactivating"}
                    => last.rs.Current = StateUnknown
        /\ ~GotActiveState => last.rs.Current = StateUnknown

\* Evaluate saw a failed unit and reported it Stopped.
C8_Witness ==
    /\ last.op = "Evaluate"
    /\ GotActiveState
    /\ unit.ActiveState = "failed"
    /\ last.rs.Current = StateStopped
    /\ last.rs.Want = s.State

\* C9: with an unrecognised UnitFileState string, Evaluate and Update return
\* an error (the explicit "Invalid unit state" when every capability call
\* succeeded), Evaluate does not report Update = TRUE, and Update makes no
\* enable, disable or reload call.
C9_InvalidEnablementIsError ==
    (unit.UnitFileState \notin (EnabledStrings \cup DisabledStrings)) =>
        /\ last.op = "Evaluate" =>
              /\ last.err # Nil
              /\ ~last.rs.Update
              /\ AllCallsOk => last.err = "Invalid unit state"
        /\ last.op = "Update" =>
              /\ last.err # Nil
              /\ AllCallsOk => last.err = "Invalid unit state"
              /\ \A i \in 1..Len(last.calls) :
                    last.calls[i].call \notin
                        {"EnableUnitFiles", "DisableUnitFiles", "Reload"}

\* Update met an unrecognised UnitFileState and returned the explicit error.
C9_Witness ==
    /\ last.op = "Update"
    /\ unit.UnitFileState = "indirect"
    /\ AllCallsOk
    /\ last.err = "Invalid unit state"

\* C10 (as claimed): Evaluate reporting Current = Stopped with Want =
\* Running, then Create returning no error, then Evaluate, yields Current =
\* Running whatever result the start job reported.
C10_CreateThenRunning ==
    (/\ prev2.Current = StateStopped
     /\ prev2.Want = StateRunning
     /\ prev.op = "Create"
     /\ prev.err = Nil
     /\ last.op = "Evaluate"
     /\ last.err = Nil)
        => last.rs.Current = StateRunning

\* The calls of the last operation, and the positions where it connects.
Calls == last.calls
Connects == {i \in 1..Len(Calls) : Calls[i].call = "New"}

\* C11 (as claimed): a failure of any capability call of Evaluate, Create,
\* Delete or Update makes the operation return an error, and a call that
\* failed is not attempted again within the operation.
C11_FailuresPropagate ==
    last.op \in {"Evaluate", "Create", "Delete", "Update"} =>
        /\ ~AllCallsOk => last.err # Nil
        /\ \A i, j \in 1..Len(Calls) :
              (i < j /\ ~Calls[i].ok /\ Calls[i].call # "New")
                  => Calls[j].call # Calls[i].call

\* Update read the boot-enablement of the unit: the query answered with a
\* string unitIsEnabled recognises (an Update that fails there leaves the
\* unit as it was).
EnablementRead ==
    /\ Len(Calls) >= 3
    /\ Calls[2] = Call("GetUnitProperty", TRUE)
    /\ unit.UnitFileState \in EnabledStrings \cup DisabledStrings

\* C16 (as claimed): every call of Update that returns has triggered a
\* reload.
C16_ReloadUnconditional ==
    last.op = "Update" => \E i \in 1..Len(Calls) : Calls[i].call = "Reload"

\* C16 (amended): an Update that read the boot-enablement goes on to
\* daemonReload whether or not the enable or disable step succeeded: it
\* connects a third time, calls Reload when that connection opens, and
\* returns the error of daemonReload; an Update that could not read the
\* boot-enablement returns that error after its one query, without a reload.
C16_ReloadAfterEnablementRead ==
    last.op = "Update" =>
        IF EnablementRead
        THEN /\ Cardinality(Connects) = 3
             /\ LET k == CHOOSE i \in Connects : \A j \in Connects : j <= i
                IN  IF Calls[k].ok
                    THEN /\ Len(Calls) = k + 2
                         /\ Calls[k + 1].call = "Reload"
                         /\ last.err = IF Calls[k + 1].ok THEN Nil ELSE "Reload"
                    ELSE /\ Len(Calls) = k
                         /\ last.err = "dbus.New"
        ELSE /\ last.err # Nil
             /\ Cardinality(Connects) = 1
             /\ \A i \in 1..Len(Calls) :
                   Calls[i].call \notin {"EnableUnitFiles", "DisableUnitFiles", "Reload"}

\* Update went on to reload, and returned nil, after EnableUnitFiles failed.
C16_Witness ==
    /\ last.op = "Update"
    /\ EnablementRead
    /\ \E i \in 1..Len(Calls) : Calls[i] = Call("EnableUnitFiles", FALSE)
    /\ Calls[Len(Calls) - 1] = Call("Reload", TRUE)
    /\ last.err = Nil

\* The connections open after the capability calls cs.
RECURSIVE Open(_)
Open(cs) ==
    IF cs = <<>> THEN 0
    ELSE LET c == cs[Len(cs)]
             o == Open(SubSeq(cs, 1, Len(cs) - 1))
         IN  CASE c.call = "New" /\ c.ok -> o + 1
               [] c.call = "Close" -> o - 1
               [] OTHER -> o

\* C17: when Evaluate, Create, Delete or Update has returned, on any path,
\* every connection it opened is closed; while it runs at most one is open,
\* and every query, job, enable, disable or reload call is made on the one
\* open connection.
C17_ConnectionsScoped ==
    /\ Open(Calls) = 0
    /\ \A k \in 1..Len(Calls) :
          /\ Open(SubSeq(Calls, 1, k)) \in {0, 1}
          /\ Calls[k].call \notin {"New", "Close"} => Open(SubSeq(Calls, 1, k)) = 1
          /\ Calls[k] = Call("New", TRUE) => Open(SubSeq(Calls, 1, k - 1)) = 0

\* Update opened and closed three connections although DisableUnitFiles
\* failed on the second.
C17_Witness ==
    /\ last.op = "Update"
    /\ Len(Calls) = 9
    /\ Calls[5] = Call("DisableUnitFiles", FALSE)
    /\ Calls[6] = Call("Close", TRUE)
    /\ Open(Calls) = 0

\* C18 (as claimed): after an Update all of whose capability calls
\* succeeded, the boot-enablement observed equals the declared Enable flag,
\* and an Evaluate that follows at once reports Update = FALSE.
C18_UpdateConverges ==
    (/\ last.op = "Update"
     /\ AllCallsOk
     /\ last.err = Nil
     /\ unit.UnitFileState \in {"enabled", "disabled"})
        => /\ (unit.UnitFileState = "enabled") = s.Enable
           /\ ~Evaluate(s, unit, {}).rs.Update

\* The unit is as the resource declares it: running or stopped as s.State
\* says and enabled at boot as s.Enable says.
AsDeclared ==
    /\ s.State = StateRunning => unit.ActiveState \in {"active", "reloading", "activating"}
    /\ s.State = StateStopped => unit.ActiveState \in {"inactive", "failed", "deactivating"}
    /\ s.Enable => unit.UnitFileState \in EnabledStrings
    /\ ~s.Enable => unit.UnitFileState \in DisabledStrings

\* Once a pass was a no-op, no pass acts on the unit any more.
StaysSettled ==
    (last.op = "NoOp" \/ (last.op = "Evaluate" /\ prev.op = "NoOp"))
        => (unit' = unit /\ last'.op \in {"Evaluate", "NoOp"})

\* C19 (as claimed): passes of Evaluate followed by the action its State
\* selects eventually reach Current = Want with Update = FALSE, a no-op
\* pass, after which no pass changes activation or enablement.
C19_PassesConverge ==
    /\ <>(last.op = "NoOp")
    /\ [][StaysSettled]_vars

\* Evaluate recognises the unit's activation and enablement strings, and
\* the enable or disable call that Update would make takes effect.
Reconcilable ==
    /\ unit.ActiveState \in {"active", "reloading", "activating",
                             "inactive", "failed", "deactivating"}
    /\ unit.UnitFileState \in EnabledStrings \cup DisabledStrings
    /\ (s.Enable /\ unit.UnitFileState \in DisabledStrings)
          => EnableUnitFiles(unit.UnitFileState) \in EnabledStrings
    /\ (~s.Enable /\ unit.UnitFileState \in EnabledStrings)
          => DisableUnitFiles(unit.UnitFileState) \in DisabledStrings

\* C19 (amended): for a unit whose activation and enablement strings
\* Evaluate recognises and on which enabling and disabling take effect, the
\* passes eventually reach a no-op pass; a pass is a no-op only when the unit
\* is as declared; and after a no-op pass no pass changes the unit.
C19_RecognisedUnitConverges ==
    /\ Reconcilable ~> (last.op = "NoOp")
    /\ [](last.op = "NoOp" => AsDeclared)
    /\ [][StaysSettled]_vars

\* A pass of Update completed the convergence that a pass of Create (or
\* Delete) began: the unit is now as declared.
C19_Witness ==
    /\ last.op = "Update"
    /\ prev.op = "Evaluate"
    /\ prev.rs.Current = prev.rs.Want
    /\ prev.rs.Update
    /\ unit.ActiveState \in {"active", "inactive"}
    /\ AsDeclared

(***************************************************************************)
(* Properties of SubmitTask and GetAllClassifiers                          *)
(***************************************************************************)

\* The queue node a call of SubmitTask created.
NodeOf(t) == [key |-> call[t].key, value |-> Marshal(t)]

\* C4: a task whose SubmitTask returned nil before another SubmitTask to the
\* same minion started has the smaller queue key; no two calls obtain the
\* same key; and a created node stays in the queue, unchanged, until the
\* minion takes it.
C4_OrderPreserving ==
    /\ \A t2 \in Tasks : \A t1 \in before[t2] :
          call[t2].key # 0 => call[t1].key < call[t2].key
    /\ \A t1, t2 \in Tasks :
          (t1 # t2 /\ call[t1].key # 0 /\ call[t2].key # 0)
              => call[t1].key # call[t2].key
    /\ \A t \in Tasks :
          (call[t].key # 0 /\ t \notin consumed) => NodeOf(t) \in queueDir[call[t].u]

\* Two tasks submitted one after the other to one minion are both queued,
\* and a submission that raced with them took a key between theirs.
C4_Witness ==
    \E t1, t2, t3 \in Tasks :
        /\ t1 \in before[t2]
        /\ t3 \notin before[t2]
        /\ NodeOf(t1) \in queueDir[call[t1].u]
        /\ NodeOf(t2) \in queueDir[call[t2].u]
        /\ call[t1].key < call[t3].key
        /\ call[t3].key < call[t2].key

\* SubmitTask(t) returned the error of the existence check or of json.Marshal.
FailedEarly(t) ==
    /\ call[t].pc = "done"
    /\ call[t].err \in {"KeyNotFound", "Get: unavailable", "json.Marshal"}

C5_State ==
    /\ \A t \in Tasks : (call[t].pc = "done" /\ call[t].u \notin root) =>
          call[t].err \in {"KeyNotFound", "Get: unavailable"}
    /\ \A u \in Minions \ root : queueDir[u] = {}
    /\ \A t \in Tasks : FailedEarly(t) =>
          /\ call[t].key = 0
          /\ \A u \in Minions : \A n \in queueDir[u] : n.value # Marshal(t)

C5_Step ==
    \A t \in Tasks :
        (call[t].pc = "get" /\ call'[t].pc = "done") => UNCHANGED storeVars

\* C5: SubmitTask for a minion whose root directory does not exist returns
\* an error and creates no queue node; a call that returns the error of the
\* existence check or of the serialisation has left the store unchanged.
C5_UnknownMinionRejected == []C5_State /\ [][C5_Step]_vars

\* A SubmitTask to an unknown minion returned KeyNotFound while another
\* minion's queue holds a task.
C5_Witness ==
    \E t \in Tasks :
        /\ call[t].pc = "done"
        /\ call[t].u \notin root
        /\ call[t].err = "KeyNotFound"
        /\ \E u \in root : queueDir[u] # {}

\* C6 (as claimed): whenever GetAllClassifiers returns an error, the
\* sequence of classifiers it returns is empty.
C6_NoPartialResults == gac.err # Nil => gac.classifiers = <<>>

(***************************************************************************)
(* Properties of the command "classifier"                                  *)
(***************************************************************************)

\* The command was given a minion uuid.
ValidArgs == Len(cmd.args) > 0 /\ Parse(cmd.args[1]) # 0

\* C12: the command ends with exit code 64, before any store access, when
\* the uuid argument is missing or does not parse; a "key not found" from
\* the listing of the classifier directory ends it quietly with no error, no
\* exit code and no single-key read; any other error of the listing, and any
\* error of a single-key read ("key not found" included), ends it with that
\* error and exit code 1.
C12_ListingCommandExits ==
    /\ cmd.pc \in {"idle", "args"} => cmd.lists = 0 /\ cmd.reads = 0
    /\ cmd.pc = "exited" =>
          /\ ~ValidArgs <=> cmd.exit = 64
          /\ ~ValidArgs => cmd.lists = 0 /\ cmd.reads = 0 /\ cmd.out # Nil
          /\ cmd.listErr = "KeyNotFound" =>
                /\ cmd.exit = 0
                /\ cmd.out = Nil
                /\ cmd.reads = 0
                /\ cmd.rows = <<>>
          /\ cmd.listErr \notin {Nil, "KeyNotFound"} =>
                /\ cmd.exit = 1
                /\ cmd.out = cmd.listErr
                /\ cmd.reads = 0
          /\ cmd.readErr # Nil =>
                /\ cmd.exit = 1
                /\ cmd.out = cmd.readErr
          /\ (ValidArgs /\ cmd.listErr \in {Nil, "KeyNotFound"} /\ cmd.readErr = Nil)
                => /\ cmd.exit = 0
                   /\ cmd.out = Nil
                   /\ Len(cmd.rows) = Len(cmd.keys)

\* The minion has no classifier directory and the command ended quietly
\* after the one listing.
C12_Witness ==
    /\ cmd.pc = "exited"
    /\ ValidArgs
    /\ ~classifierDir[cmd.minion].found
    /\ cmd.listErr = "KeyNotFound"
    /\ cmd.lists = 1
    /\ cmd.exit = 0

(***************************************************************************)
(* Properties of GetClassifiedMinions and GetTask                          *)
(***************************************************************************)

\* The minions the listing names.
Listed == {m \in Fleet : \E i \in 1..Len(nodes) : nodes[i] = String(m)}

\* The minions whose entry the query read and found decodable.
Holders == {m \in Listed : entry[m] = "ok"}

\* The map the query is to return: each holder's own entry under its uuid.
Expected == {[Key |-> String(m), Value |-> Stored(m)] : m \in Holders}

ReturnedMap == ret.returned /\ ret.err = Nil

\* C1 (as claimed): the map GetTask returns has an entry for a minion
\* exactly when that minion has a decodable log entry for the task, and the
\* entry under a minion's uuid is that minion's own decoded task.
C1_OwnTaskResults == ReturnedMap => ret.result = Expected

\* C2: GetClassifiedMinions returns exactly one entry per minion that has a
\* readable, decodable classifier, keyed by the uuid string; the other
\* minions are omitted without an error; no minion is looked up twice.
C2_ExactlyTheClassified ==
    /\ \A m \in Fleet : lookups[m] <= 1
    /\ (ret.returned /\ ret.err # Nil) => (producer.pc = "unstarted" /\ cm = {})
    /\ ReturnedMap =>
          /\ ret.result = Expected
          /\ Cardinality(ret.result) = Cardinality(Holders)
          /\ \A m \in Listed : lookups[m] = 1 /\ entry[m] # "unread"

\* The query returned the classifiers of some, not all, of the minions:
\* others held no classifier or one that does not decode.
C2_Witness ==
    /\ ReturnedMap
    /\ Cardinality(ret.result) >= 2
    /\ \E m \in Listed : entry[m] = "none"
    /\ \E m \in Listed : entry[m] = "garbage"

\* C3, for GetClassifiedMinions alone: under fair scheduling the query
\* returns to its caller.
C3_ClassifiedMinionsReturns == <>(callerPc = "returned")

\* C3 (as claimed, the part a finite run can refute): a fan-out query never
\* crashes and never deadlocks; every listed minion is taken from the
\* channel by one worker, and when the caller passes the barrier the
\* channel is closed and empty and all workers have exited.
C3_FanOutCompletes ==
    /\ ~crashed
    /\ \A m \in Fleet : lookups[m] <= 1
    /\ callerPc # "returned" => ENABLED NextGetTask
    /\ (callerPc \in {"copy", "returned"} /\ ret.err = Nil) =>
          /\ closed
          /\ queue = <<>>
          /\ BagCardinality(worker) = maxGoroutines
          /\ \A w \in BagToSet(worker) : w.pc = "done"
          /\ \A m \in Listed : lookups[m] = 1

\* The per-minion store lookups in flight: the workers that hold a uuid
\* taken from the channel and have not got the store's answer.
InFlight ==
    BagCardinality([w \in {x \in BagToSet(worker) : x.pc = "get"} |-> worker[w]])

\* C13: at most maxGoroutines per-minion lookups are in flight, whatever the
\* number of minions listed.
C13_BoundedLookups ==
    /\ BagCardinality(worker) <= maxGoroutines
    /\ InFlight <= maxGoroutines

\* maxGoroutines lookups are in flight while a further minion waits in the
\* channel.
C13_Witness ==
    /\ InFlight = maxGoroutines
    /\ queue # <<>>
    /\ Cardinality(Listed) > maxGoroutines

\* C14 (as claimed): when the caller starts the copy the channel is closed
\* and empty and every worker has signalled completion; the concurrent map
\* is not written during or after the copy; and the map returned holds the
\* entry of every minion whose lookup succeeded.
C14_CopyAfterBarrier ==
    /\ (callerPc \in {"copy", "returned"} /\ ret.err = Nil) =>
          /\ closed
          /\ queue = <<>>
          /\ wg = 0
          /\ \A w \in BagToSet(worker) : w.pc = "done"
    /\ ReturnedMap =>
          /\ ret.result = cm
          /\ \A m \in Listed :
                entry[m] = "ok" => \E e \in ret.result : e.Key = String(m)

\* C15: when the listing of the minion space fails the query returns that
\* error and no map, and has started neither the producer nor a worker nor
\* any per-minion lookup.
C15_ListingFailureShortCircuits ==
    (ret.returned /\ ret.err # Nil) =>
          /\ callerPc = "returned"
          /\ resp.isNil
          /\ ret.err = err
          /\ ret.result = {}
          /\ producer.pc = "unstarted"
          /\ worker = EmptyBag
          /\ wg = 0
          /\ queue = <<>> /\ ~closed
          /\ cm = {}
          /\ \A m \in Fleet : lookups[m] = 0 /\ entry[m] = "unread"

\* The listing failed and the query returned its error.
C15_Witness ==
    /\ callerPc = "returned"
    /\ ret.returned
    /\ ret.err = "unavailable"
    /\ resp.isNil

====
